---- MODULE Spec2Model ----
(***************************************************************************)
(* Model of the training controller (src/bert.py, BertController), of the  *)
(* fusion classifier's shape bookkeeping and dropout                       *)
(* (MorphologicalBertForSequenceClassification) and of the preprocessing   *)
(* run (src/preprocess.py, __main__).                                      *)
(*                                                                         *)
(* Accuracies are kept as num_correct, the numerator of                    *)
(* num_correct / len(dev_dataset): within one fit call the denominator is  *)
(* the same positive number, so > on the quotients is > on the numerators  *)
(* and 0.0 is the numerator 0.                                             *)
(***************************************************************************)
EXTENDS Integers, Sequences, FiniteSets, TLC

(* ----------------------------- bounds ---------------------------------- *)
\* largest len(train_dataset) handed to fit
MaxTrain == 3
\* largest validate_every_n_steps given to the constructor
MaxInterval == 4
\* largest early_stopping_rounds given to the constructor
MaxRounds == 2
\* largest num_epochs handed to fit
MaxEpochs == 2
\* len(dev_dataset) of the dev set handed to fit
DevSize == 2
\* cap on the save_checkpoint calls counted between two fit calls
MaxSaves == 1
\* bert_model.config.hidden_size of the pretrained encoder
HiddenSize == 2
\* largest embedding dimension configured for an auxiliary feature
MaxEmb == 2
\* num_labels
NumLabels == 2
\* cap on the optimizer updates counted over the life of a controller (one per
\* batch trained on)
MaxParams == 6
\* largest number of rows of the csv handed to the preprocessing run
MaxRows == 3

VARIABLES
    pc,                      \* position of the controller: idle, inside fit, returned
    validate_every_n_steps,  \* self.validate_every_n_steps
    early_stopping_rounds,   \* self.early_stopping_rounds
    train_len,               \* len(train_dataset) of the running fit call
    num_epochs,              \* fit argument
    dev_present,             \* dev_dataset is not None
    best_dev_acc,            \* fit local (numerator, see above)
    rounds_no_increase,      \* fit local
    stop_early,              \* fit local
    idx_epoch,               \* fit local
    idx_miniset,             \* fit local
    num_minisets,            \* fit local
    shuffled_indices,        \* fit local: torch.randperm(len(train_dataset))
    curr_subset,             \* fit local: indices of the Subset handed to train
    trained,                 \* history: the minisets passed to train in this epoch
    train_calls,             \* history: calls of train in this fit call
    vals,                    \* history: the validations of this fit call
    save_calls,              \* history: calls of save_checkpoint since fit was called
    mstate,                  \* model construction: unbuilt, ready, KeyError
    additional_features,     \* model.additional_features: feature name -> emb size
    pooling_type,            \* model.pooling_type
    dropout,                 \* model.dropout, in percent
    pooler_size,             \* size the pooler was built with (0: none, or mean pooler)
    classifier_in,           \* classifier.in_features
    training,                \* model.training, set by model.train() / model.eval()
    params,                  \* identity of the model parameters: the updates applied
    train_status,            \* outcome of the last train call: none, ok, or its exception
    vpos,                    \* validate: 0 outside, else the next dev example
    num_correct,             \* validate local
    fwd,                     \* result of the last forward: status, widths, dropout effect
    metrics,                 \* accuracies returned by the validate calls since the last train
    ppc,                     \* preprocessing run: loop, done, or the exception that ended it
    df,                      \* the rows read from the csv
    idx_ex,                  \* loop index (0-based)
    features,                \* the features list
    take_mask,               \* the take_mask list
    out_df,                  \* the rows written by to_csv
    raised                   \* history: the row indices on which nlp raised RuntimeError

fitVars == <<pc, validate_every_n_steps, early_stopping_rounds, train_len, num_epochs,
             dev_present, best_dev_acc, rounds_no_increase, stop_early, idx_epoch,
             idx_miniset, num_minisets, shuffled_indices, curr_subset, trained,
             train_calls, vals, save_calls>>

modelVars == <<mstate, additional_features, pooling_type, dropout, pooler_size,
               classifier_in, training, params, train_status, vpos, num_correct, fwd,
               metrics>>

preVars == <<ppc, df, idx_ex, features, take_mask, out_df, raised>>

vars == <<fitVars, modelVars, preVars>>

(* ----------------------------- helpers --------------------------------- *)
Min(a, b) == IF a < b THEN a ELSE b

Max(a, b) == IF a > b THEN a ELSE b

\* torch.randperm(n): the permutations of 0..n-1, as sequences
Randperm(n) ==
    { s \in [1..n -> 0..(n - 1)] : \A i, j \in 1..n : i # j => s[i] # s[j] }

\* (len(train_dataset) + validate_every_n_steps - 1) // validate_every_n_steps
NumMinisetsFloor(n, v) == n \div v

NumMinisets(n, v) == (n + v - 1) \div v

\* s[lo:hi] of Python/torch slicing with 0 <= lo <= hi: the end is clamped to len(s)
Slice(s, lo, hi) == SubSeq(s, Min(lo, Len(s)) + 1, Min(hi, Len(s)))

\* shuffled_indices[idx * v : (idx + 1) * v]
Miniset(perm, idx, v) == Slice(perm, idx * v, (idx + 1) * v)

\* dev_dataset is None or len(curr_subset) < self.validate_every_n_steps // 2
SkipValidationInclusive(dev, len, v) == (~dev) \/ len <= v \div 2

SkipValidationIgnoreDev(dev, len, v) == len < v \div 2

SkipValidation(dev, len, v) == (~dev) \/ len < v \div 2

\* dev_metrics["accuracy"] > best_dev_acc
IsNewBestOrEqual(acc, best) == acc >= best

IsNewBest(acc, best) == acc > best

\* rounds_no_increase == self.early_stopping_rounds
ShouldStopLate(rounds, esr) == rounds = esr + 1

ShouldStopEager(rounds, esr) == rounds + 1 = esr

ShouldStop(rounds, esr) == rounds = esr

(* ------------------------- the fusion classifier ------------------------- *)
\* names of the auxiliary features: the part-of-speech feature and one other
FeatureNames == {"upostag", "Case"}

\* --pooling_type; "other" is any value that is none of lstm, weighted (None included)
PoolingTypes == {"mean", "weighted", "lstm", "other"}

\* --dropout in percent: 0, the default 0.2, and 0.5
DropoutChoices == {0, 20, 50}

\* the configurations {feature_name: embedding_dimension}
FeatureConfigs == UNION { [S -> 1..MaxEmb] : S \in SUBSET FeatureNames }

\* the constructor arguments additional_features, pooling_type, dropout
Configs == [feats : FeatureConfigs, pooling : PoolingTypes, pct : DropoutChoices]

\* the constructor arguments of the controllers whose fit is explored: the defaults
\* (no auxiliary feature, pooling_type None, dropout 0.2), and a configuration that
\* is constructed but whose forward raises (two features of different embedding
\* sizes under the weighted pooler)
FitConfigs ==
    { [feats |-> <<>>, pooling |-> "other", pct |-> 20],
      [feats |-> [upostag |-> 1, Case |-> MaxEmb], pooling |-> "weighted", pct |-> 0] }

RECURSIVE SumOver(_, _)
SumOver(f, S) ==
    IF S = {} THEN 0
    ELSE LET x == CHOOSE y \in S : TRUE IN f[x] + SumOver(f, S \ {x})

\* sum(self.additional_features.values())
SumValues(f) == SumOver(f, DOMAIN f)

NoForward == [status |-> "none", fed_width |-> 0, out_cols |-> 0, dropped |-> FALSE]

\* __init__, the pooler: additional_features["upostag"] is read for lstm and weighted
\* whenever any feature is configured
PoolerLookupFails(feats, pooling) ==
    /\ DOMAIN feats # {}
    /\ pooling \in {"lstm", "weighted"}
    /\ "upostag" \notin DOMAIN feats

PoolerSize(feats, pooling) ==
    IF DOMAIN feats # {} /\ pooling \in {"lstm", "weighted"} THEN feats["upostag"] ELSE 0

\* nn.Linear(hidden_size + sum(additional_features.values()), num_labels)
ClassifierIn(feats) == HiddenSize + SumValues(feats)

\* self.pooler(data=self.embedders[name](ids), masks): the embedder gives
\* [B, T, emb]; the weighted pooler's linear layer and the lstm pooler's LSTM take
\* inputs of the size they were built with and fail on any other; the result is
\* [B, emb] for mean and weighted, [B, hidden_size] for lstm. 0 stands for the failure.
PooledWidth(pooling, size, emb) ==
    IF pooling \in {"lstm", "weighted"}
    THEN (IF emb = size THEN (IF pooling = "lstm" THEN size ELSE emb) ELSE 0)
    ELSE emb

\* forward, the shapes: the width of the vector handed to dropout and the classifier,
\* 0 when a pooler raised
FedWidth(feats, pooling, size) ==
    IF \E f \in DOMAIN feats : PooledWidth(pooling, size, feats[f]) = 0
    THEN 0
    ELSE HiddenSize + SumOver([f \in DOMAIN feats |-> PooledWidth(pooling, size, feats[f])],
                              DOMAIN feats)

\* stand-in for the encoder and the embedders: entry i of the fused vector of
\* example e under parameters p, a fixed function of (p, e, i) with values -1, 0, 1
Fused(p, e, i) == ((p + e + 2 * i) % 3) - 1

\* stand-in for the classifier's weight and bias under parameters p
Weight(p, c, i) == ((p + c * i + c) % 3) - 1

Bias(p, c) == ((p + c) % 2)

\* label of dev example e
Label(e) == e % NumLabels

\* F.dropout(x, p, training) is the identity exactly when not training or p = 0
DropoutActive(pct, train) == train /\ pct # 0

\* F.dropout(x, p, training): when active, every entry is zeroed or scaled by
\* 1 / (1 - p), `keep` being the entries kept. Values are numerators over the common
\* denominator 100 - pct.
F_dropout(x, pct, train, keep) ==
    IF ~DropoutActive(pct, train)
    THEN [i \in DOMAIN x |-> (100 - pct) * x[i]]
    ELSE [i \in DOMAIN x |-> IF i \in keep THEN 100 * x[i] ELSE 0]

RECURSIVE Dot(_, _, _, _)
Dot(p, c, y, n) == IF n = 0 THEN 0 ELSE Weight(p, c, n) * y[n] + Dot(p, c, y, n - 1)

\* self.classifier(y), over the same denominator
Logit(p, c, y, pct) == Dot(p, c, y, Len(y)) + (100 - pct) * Bias(p, c)

\* torch.argmax(logits, dim=1): the first class with the largest logit
Argmax(p, y, pct) ==
    CHOOSE c \in 0..(NumLabels - 1) :
        /\ \A d \in 0..(NumLabels - 1) : Logit(p, d, y, pct) <= Logit(p, c, y, pct)
        /\ \A d \in 0..(c - 1) : Logit(p, d, y, pct) < Logit(p, c, y, pct)

\* forward line 147: F.dropout(pooled_output, p=self.dropout), the training
\* argument left at its default True whatever model.training is
DropoutTrainingFlag(mode) == TRUE

\* forward, the vectors: the fused vector of example e and what the dropout of
\* line 147 hands to the classifier when it keeps the entries `keep`, in mode `mode`
FusedVector(e) ==
    [i \in 1..FedWidth(additional_features, pooling_type, pooler_size) |->
        Fused(params, e, i)]

DroppedVector(e, mode, keep) ==
    F_dropout(FusedVector(e), dropout, DropoutTrainingFlag(mode), keep)

\* forward in mode `mode`: a pooler or the classifier raises on a width it was not
\* built for; otherwise the output has num_labels columns, and `dropped` says
\* whether the dropout of line 147 was active (it then zeroes or rescales every
\* entry of the vector)
ForwardResult(mode) ==
    LET w == FedWidth(additional_features, pooling_type, pooler_size)
    IN IF w = 0 \/ w # classifier_in
       THEN [status |-> "RuntimeError", fed_width |-> w, out_cols |-> 0,
             dropped |-> FALSE]
       ELSE [status |-> "ok", fed_width |-> w, out_cols |-> NumLabels,
             dropped |-> DropoutActive(dropout, DropoutTrainingFlag(mode))]

\* the dropout masks of a forward: the entries of the fused vector that are kept
KeepSets == SUBSET (1..FedWidth(additional_features, pooling_type, pooler_size))

\* self.batch_size, left at the constructor's default
BatchSize == 16

\* DataLoader(dataset, batch_size=self.batch_size): the number of batches
NumBatches(len) == (len + BatchSize - 1) \div BatchSize

\* BertController.train(dataset), its effect on the classifier after model.train():
\* per batch forward, loss, backward, optimizer step, a shape error of the first
\* forward ending the call; with no batch the closing division by total_num_batches
\* raises
TrainResult(num_batches) ==
    IF num_batches = 0
    THEN [status |-> "ZeroDivisionError", params |-> params, fwd |-> fwd]
    ELSE LET r == ForwardResult(TRUE)
         IN IF r.status = "ok"
            THEN [status |-> "ok", params |-> params + num_batches, fwd |-> r]
            ELSE [status |-> "RuntimeError", params |-> params, fwd |-> r]

\* no controller has been constructed (the preprocessing run builds none)
NoModel ==
    /\ mstate = "unbuilt"
    /\ additional_features = <<>>
    /\ pooling_type = "other"
    /\ dropout = 0
    /\ pooler_size = 0
    /\ classifier_in = 0
    /\ training = TRUE
    /\ params = 0
    /\ train_status = "none"
    /\ vpos = 0
    /\ num_correct = 0
    /\ fwd = NoForward
    /\ metrics = <<>>

\* the classifier after BertController.__init__ with the arguments c: a module is
\* constructed in training mode; the lookup of "upostag" may have raised KeyError
Constructed(c) ==
    /\ additional_features = c.feats
    /\ pooling_type = c.pooling
    /\ dropout = c.pct
    /\ IF PoolerLookupFails(c.feats, c.pooling)
       THEN /\ mstate = "KeyError"
            /\ pooler_size = 0
            /\ classifier_in = 0
       ELSE /\ mstate = "ready"
            /\ pooler_size = PoolerSize(c.feats, c.pooling)
            /\ classifier_in = ClassifierIn(c.feats)
    /\ training = TRUE
    /\ params = 0
    /\ train_status = "none"
    /\ vpos = 0
    /\ num_correct = 0
    /\ fwd = NoForward
    /\ metrics = <<>>

\* a controller constructed with one of the configurations whose fit is explored
InitModel == \E c \in FitConfigs : Constructed(c)

\* a constructor call with any configuration
InitModelAny == \E c \in Configs : Constructed(c)

\* BertController.__init__ -> MorphologicalBertForSequenceClassification.__init__:
\* another controller is constructed
Construct(feats, pooling, pct) ==
    /\ mstate \in {"unbuilt", "KeyError"} \/ (mstate = "ready" /\ vpos = 0)
    /\ additional_features' = feats
    /\ pooling_type' = pooling
    /\ dropout' = pct
    /\ IF PoolerLookupFails(feats, pooling)
       THEN /\ mstate' = "KeyError"
            /\ pooler_size' = 0
            /\ classifier_in' = 0
       ELSE /\ mstate' = "ready"
            /\ pooler_size' = PoolerSize(feats, pooling)
            /\ classifier_in' = ClassifierIn(feats)
    /\ training' = TRUE
    /\ params' = 0
    /\ train_status' = "none"
    /\ vpos' = 0
    /\ num_correct' = 0
    /\ fwd' = NoForward
    /\ metrics' = <<>>
    /\ UNCHANGED <<fitVars, preVars>>

\* BertController.train(dataset) on a dataset of num_batches batches
TrainCall(num_batches) ==
    /\ mstate = "ready" /\ vpos = 0
    /\ params + num_batches <= MaxParams
    /\ training' = TRUE
    /\ LET r == TrainResult(num_batches)
       IN /\ train_status' = r.status
          /\ params' = r.params
          /\ fwd' = r.fwd
    /\ metrics' = <<>>
    /\ UNCHANGED <<mstate, additional_features, pooling_type, dropout, pooler_size,
                   classifier_in, vpos, num_correct>>
    /\ UNCHANGED <<fitVars, preVars>>

\* validate(dev_dataset): entry, model.eval()
ValidateBegin ==
    /\ mstate = "ready" /\ vpos = 0
    /\ Len(metrics) < 2
    /\ training' = FALSE
    /\ num_correct' = 0
    /\ vpos' = 1
    /\ UNCHANGED <<mstate, additional_features, pooling_type, dropout, pooler_size,
                   classifier_in, params, train_status, fwd, metrics>>
    /\ UNCHANGED <<fitVars, preVars>>

\* validate, one batch (of one example): forward, argmax, count the correct ones
ValidateBatch(keep) ==
    /\ vpos \in 1..DevSize
    /\ LET r == ForwardResult(training)
       IN /\ fwd' = r
          /\ IF r.status # "ok"
             THEN /\ vpos' = 0
                  /\ num_correct' = num_correct
             ELSE /\ vpos' = vpos + 1
                  /\ num_correct' = num_correct
                         + (IF Argmax(params, DroppedVector(vpos, training, keep), dropout)
                                   = Label(vpos)
                            THEN 1 ELSE 0)
    /\ UNCHANGED <<mstate, additional_features, pooling_type, dropout, pooler_size,
                   classifier_in, training, params, train_status, metrics>>
    /\ UNCHANGED <<fitVars, preVars>>

\* validate: the loop is exhausted, the metrics are returned
ValidateReturn ==
    /\ vpos = DevSize + 1
    /\ metrics' = Append(metrics, [accuracy |-> num_correct, params |-> params])
    /\ vpos' = 0
    /\ UNCHANGED <<mstate, additional_features, pooling_type, dropout, pooler_size,
                   classifier_in, training, params, train_status, num_correct, fwd>>
    /\ UNCHANGED <<fitVars, preVars>>

NextModel ==
    \/ \E c \in Configs : Construct(c.feats, c.pooling, c.pct)
    \/ \E num_batches \in 0..1 : TrainCall(num_batches)
    \/ ValidateBegin
    \/ \E keep \in KeepSets : ValidateBatch(keep)
    \/ ValidateReturn


(* ------------------------- the training controller --------------------- *)
InitFit ==
    /\ pc = "idle"
    /\ validate_every_n_steps \in 1..MaxInterval
    /\ early_stopping_rounds \in 0..MaxRounds
    /\ train_len = 0
    /\ num_epochs = 0
    /\ dev_present = FALSE
    /\ best_dev_acc = 0
    /\ rounds_no_increase = 0
    /\ stop_early = FALSE
    /\ idx_epoch = 0
    /\ idx_miniset = 0
    /\ num_minisets = 0
    /\ shuffled_indices = <<>>
    /\ curr_subset = <<>>
    /\ trained = <<>>
    /\ train_calls = 0
    /\ vals = <<>>
    /\ save_calls = 0

\* fit(train_dataset, num_epochs, dev_dataset): entry, up to the first loop test. A
\* call is explored when the optimizer updates it can make fit under MaxParams.
Fit(n, epochs, dev) ==
    /\ pc \in {"idle", "returned", "RuntimeError", "ZeroDivisionError"}
    /\ mstate = "ready"
    /\ params + epochs * NumMinisets(n, validate_every_n_steps)
                       * NumBatches(validate_every_n_steps) <= MaxParams
    /\ train_len' = n
    /\ num_epochs' = epochs
    /\ dev_present' = dev
    /\ best_dev_acc' = 0
    /\ rounds_no_increase' = 0
    /\ stop_early' = FALSE
    /\ idx_epoch' = 0
    /\ idx_miniset' = 0
    /\ num_minisets' = 0
    /\ shuffled_indices' = <<>>
    /\ curr_subset' = <<>>
    /\ trained' = <<>>
    /\ train_calls' = 0
    /\ vals' = <<>>
    /\ save_calls' = 0
    /\ pc' = "epoch"
    /\ UNCHANGED <<validate_every_n_steps, early_stopping_rounds>>
    /\ UNCHANGED <<modelVars, preVars>>

\* for idx_epoch in range(num_epochs): one more epoch, shuffle and count the minisets
EpochBegin ==
    /\ pc = "epoch"
    /\ idx_epoch < num_epochs
    /\ \E perm \in Randperm(train_len) : shuffled_indices' = perm
    /\ num_minisets' = NumMinisets(train_len, validate_every_n_steps)
    /\ idx_miniset' = 0
    /\ trained' = <<>>
    /\ pc' = "miniset"
    /\ UNCHANGED <<validate_every_n_steps, early_stopping_rounds, train_len, num_epochs,
                   dev_present, best_dev_acc, rounds_no_increase, stop_early, idx_epoch,
                   curr_subset, train_calls, vals, save_calls>>
    /\ UNCHANGED <<modelVars, preVars>>

\* the epoch loop is exhausted: fit returns, and the index tensors of its frame
\* (shuffled_indices, curr_subset) are released with it
FitReturn ==
    /\ pc = "epoch"
    /\ idx_epoch >= num_epochs
    /\ pc' = "returned"
    /\ shuffled_indices' = <<>>
    /\ curr_subset' = <<>>
    /\ trained' = <<>>
    /\ UNCHANGED <<validate_every_n_steps, early_stopping_rounds, train_len, num_epochs,
                   dev_present, best_dev_acc, rounds_no_increase, stop_early, idx_epoch,
                   idx_miniset, num_minisets, train_calls, vals, save_calls>>
    /\ UNCHANGED <<modelVars, preVars>>

\* one miniset: take the slice, train on it (model.train(), an optimizer step per
\* batch), then skip the validation or go to it; an exception of train leaves fit,
\* whose index tensors are released with its frame
TrainMiniset ==
    /\ pc = "miniset"
    /\ idx_miniset < num_minisets
    /\ LET subset == Miniset(shuffled_indices, idx_miniset, validate_every_n_steps)
           r == TrainResult(NumBatches(Len(subset)))
       IN /\ train_calls' = train_calls + 1
          /\ training' = TRUE
          /\ train_status' = r.status
          /\ params' = r.params
          /\ fwd' = r.fwd
          /\ metrics' = <<>>
          /\ IF r.status # "ok"
             THEN /\ pc' = r.status
                  /\ idx_miniset' = idx_miniset
                  /\ shuffled_indices' = <<>>
                  /\ curr_subset' = <<>>
                  /\ trained' = <<>>
             ELSE /\ curr_subset' = subset
                  /\ trained' = Append(trained, subset)
                  /\ shuffled_indices' = shuffled_indices
                  /\ IF SkipValidation(dev_present, Len(subset), validate_every_n_steps)
                     THEN /\ idx_miniset' = idx_miniset + 1
                          /\ pc' = "miniset"
                     ELSE /\ idx_miniset' = idx_miniset
                          /\ pc' = "validate"
    /\ UNCHANGED <<validate_every_n_steps, early_stopping_rounds, train_len, num_epochs,
                   dev_present, best_dev_acc, rounds_no_increase, stop_early, idx_epoch,
                   num_minisets, vals, save_calls>>
    /\ UNCHANGED <<mstate, additional_features, pooling_type, dropout, pooler_size,
                   classifier_in, vpos, num_correct>>
    /\ UNCHANGED preVars

\* validate on the dev set (model.eval(), a forward per dev batch, `correct` of the
\* DevSize examples predicted right), then the best/counter update and the
\* early-stopping test
ValidateMiniset(correct) ==
    /\ pc = "validate"
    /\ training' = FALSE
    /\ num_correct' = correct
    /\ fwd' = ForwardResult(FALSE)
    /\ metrics' = Append(metrics, [accuracy |-> correct, params |-> params])
    /\ LET new_best == IsNewBest(correct, best_dev_acc)
           best == IF new_best THEN correct ELSE best_dev_acc
           rounds == IF new_best THEN 0 ELSE rounds_no_increase + 1
       IN /\ best_dev_acc' = best
          /\ rounds_no_increase' = rounds
          /\ vals' = Append(vals, [accuracy |-> correct, new_best |-> new_best])
          /\ IF ShouldStop(rounds, early_stopping_rounds)
             THEN /\ stop_early' = TRUE
                  /\ idx_miniset' = idx_miniset
                  /\ pc' = "epoch_end"
             ELSE /\ stop_early' = stop_early
                  /\ idx_miniset' = idx_miniset + 1
                  /\ pc' = "miniset"
    /\ UNCHANGED <<validate_every_n_steps, early_stopping_rounds, train_len, num_epochs,
                   dev_present, idx_epoch, num_minisets, shuffled_indices, curr_subset,
                   trained, train_calls, save_calls>>
    /\ UNCHANGED <<mstate, additional_features, pooling_type, dropout, pooler_size,
                   classifier_in, params, train_status, vpos>>
    /\ UNCHANGED preVars

\* the miniset loop is exhausted
MinisetsDone ==
    /\ pc = "miniset"
    /\ idx_miniset >= num_minisets
    /\ pc' = "epoch_end"
    /\ UNCHANGED <<validate_every_n_steps, early_stopping_rounds, train_len, num_epochs,
                   dev_present, best_dev_acc, rounds_no_increase, stop_early, idx_epoch,
                   idx_miniset, num_minisets, shuffled_indices, curr_subset, trained,
                   train_calls, vals, save_calls>>
    /\ UNCHANGED <<modelVars, preVars>>

\* if stop_early: break (fit returns, its index tensors released); otherwise the
\* next epoch
EpochEnd ==
    /\ pc = "epoch_end"
    /\ IF stop_early
       THEN /\ pc' = "returned"
            /\ idx_epoch' = idx_epoch
            /\ shuffled_indices' = <<>>
            /\ curr_subset' = <<>>
            /\ trained' = <<>>
       ELSE /\ pc' = "epoch"
            /\ idx_epoch' = idx_epoch + 1
            /\ UNCHANGED <<shuffled_indices, curr_subset, trained>>
    /\ UNCHANGED <<validate_every_n_steps, early_stopping_rounds, train_len, num_epochs,
                   dev_present, best_dev_acc, rounds_no_increase, stop_early,
                   idx_miniset, num_minisets, train_calls, vals, save_calls>>
    /\ UNCHANGED <<modelVars, preVars>>

\* save_checkpoint(), called by the user outside fit: its body is `pass`
SaveCheckpoint ==
    /\ pc \in {"idle", "returned", "RuntimeError", "ZeroDivisionError"}
    /\ save_calls < MaxSaves
    /\ save_calls' = save_calls + 1
    /\ UNCHANGED <<pc, validate_every_n_steps, early_stopping_rounds, train_len,
                   num_epochs, dev_present, best_dev_acc, rounds_no_increase, stop_early,
                   idx_epoch, idx_miniset, num_minisets, shuffled_indices, curr_subset,
                   trained, train_calls, vals>>
    /\ UNCHANGED <<modelVars, preVars>>


(* ------------------------- the preprocessing run -------------------------- *)
\* utils.PAD, written for a token without a predicted tag
PAD == "<PAD>"

\* the csv rows: a text in the data column and a label in the target column
Rows == [data : {"ein Satz", "???"}, label : {0, 1}]

\* stand-in for the stanza pipeline on a text that it annotates: one sentence of one
\* word, with a tag and universal features for the first text and with neither
\* (None) for the second
Nlp(text) ==
    << << IF text = "ein Satz"
          THEN [text |-> text, feats |-> "Case=Nom|Number=Sing", upos |-> "NOUN"]
          ELSE [text |-> text, feats |-> "None", upos |-> "None"] >> >>

\* the position of the first occurrence of the character sep in s from position i
\* on, 0 when there is none
RECURSIVE Find(_, _, _)
Find(s, sep, i) ==
    IF i > Len(s) THEN 0
    ELSE IF SubSeq(s, i, i) = sep THEN i ELSE Find(s, sep, i + 1)

\* s.split(sep) for a separator of one character
RECURSIVE Split(_, _)
Split(s, sep) ==
    LET k == Find(s, sep, 1)
    IN IF k = 0 THEN <<s>>
       ELSE <<SubSeq(s, 1, k - 1)>> \o Split(SubSeq(s, k + 1, Len(s)), sep)

\* d[k] = v on a dict
Put(d, k, v) == [x \in DOMAIN d \cup {k} |-> IF x = k THEN v ELSE d[x]]

\* token_feats.split("|"), nothing when the features are None
FeatValPairs(word) == IF word.feats = "None" THEN <<>> ELSE Split(word.feats, "|")

\* feat, val = feat_val_pair.split("="): the unpacking raises ValueError unless the
\* split gives exactly two parts
UnpackRaises(word) ==
    \E i \in DOMAIN FeatValPairs(word) : Len(Split(FeatValPairs(word)[i], "=")) # 2

\* processed_feats[feat] = val for every pair, in order
RECURSIVE WriteFeats(_, _)
WriteFeats(d, pairs) ==
    IF pairs = <<>> THEN d
    ELSE LET fv == Split(Head(pairs), "=")
         IN WriteFeats(Put(d, fv[1], fv[2]), Tail(pairs))

\* extract_features raises on some word of the document
ExtractFeaturesRaises(doc) ==
    \E s \in DOMAIN doc : \E w \in DOMAIN doc[s] : UnpackRaises(doc[s][w])

\* extract_features(stanza_output): per sentence, per word, a dict of the form, the
\* universal features when there are any, and the upostag, PAD when no tag was
\* predicted
ExtractFeatures(doc) ==
    [s \in DOMAIN doc |->
        [w \in DOMAIN doc[s] |->
            Put(WriteFeats([form |-> doc[s][w].text], FeatValPairs(doc[s][w])),
                "upostag",
                IF doc[s][w].upos = "None" THEN PAD ELSE doc[s][w].upos)]]

\* df.loc[take_mask].reset_index(drop=True): the rows whose mask entry is True, in order
SelectAllRows(rows, mask) == rows

RECURSIVE SelectRows(_, _)
SelectRows(rows, mask) ==
    IF rows = <<>> THEN <<>>
    ELSE IF Head(mask)
         THEN <<Head(rows)>> \o SelectRows(Tail(rows), Tail(mask))
         ELSE SelectRows(Tail(rows), Tail(mask))

InitPre ==
    /\ ppc = "loop"
    /\ df \in UNION { [1..n -> Rows] : n \in 0..MaxRows }
    /\ idx_ex = 0
    /\ features = <<>>
    /\ take_mask = <<>>
    /\ out_df = <<>>
    /\ raised = {}

InitPreIdle ==
    /\ ppc = "loop"
    /\ df = <<>>
    /\ idx_ex = 0
    /\ features = <<>>
    /\ take_mask = <<>>
    /\ out_df = <<>>
    /\ raised = {}

\* one pass of the loop: nlp(curr_ex) raises RuntimeError or returns; an exception
\* of extract_features is not caught and ends the run
AnnotateRow(raises) ==
    /\ ppc = "loop"
    /\ idx_ex < Len(df)
    /\ IF raises
       THEN /\ take_mask' = Append(take_mask, FALSE)
            /\ features' = features
            /\ raised' = raised \cup {idx_ex}
            /\ idx_ex' = idx_ex + 1
            /\ ppc' = ppc
       ELSE IF ExtractFeaturesRaises(Nlp(df[idx_ex + 1].data))
       THEN /\ ppc' = "ValueError"
            /\ UNCHANGED <<take_mask, features, raised, idx_ex>>
       ELSE /\ take_mask' = Append(take_mask, TRUE)
            /\ features' = Append(features, ExtractFeatures(Nlp(df[idx_ex + 1].data)))
            /\ raised' = raised
            /\ idx_ex' = idx_ex + 1
            /\ ppc' = ppc
    /\ UNCHANGED <<df, out_df>>
    /\ UNCHANGED <<fitVars, modelVars>>

\* after the loop: select the rows, attach the features column (pandas raises
\* ValueError when its length is not the number of rows), rename, write
WriteOutput ==
    /\ ppc = "loop"
    /\ idx_ex >= Len(df)
    /\ LET kept == SelectRows(df, take_mask)
       IN IF Len(features) # Len(kept)
          THEN /\ ppc' = "ValueError"
               /\ out_df' = <<>>
          ELSE /\ ppc' = "done"
               /\ out_df' = [k \in 1..Len(kept) |->
                                [content |-> kept[k].data, target |-> kept[k].label,
                                 features |-> features[k]]]
    /\ UNCHANGED <<df, idx_ex, features, take_mask, raised>>
    /\ UNCHANGED <<fitVars, modelVars>>

NextPre ==
    \/ \E raises \in BOOLEAN : AnnotateRow(raises)
    \/ WriteOutput


(* ------------------------------ specifications ---------------------------- *)
\* the fit loop of a constructed controller; the accuracy a validation returns is
\* an input
Init == InitFit /\ InitModel /\ InitPreIdle

Next ==
    \/ \E n \in 0..MaxTrain, epochs \in 0..MaxEpochs, dev \in BOOLEAN : Fit(n, epochs, dev)
    \/ EpochBegin
    \/ FitReturn
    \/ TrainMiniset
    \/ \E correct \in 0..DevSize : ValidateMiniset(correct)
    \/ MinisetsDone
    \/ EpochEnd
    \/ SaveCheckpoint

Spec == Init /\ [][Next]_vars

\* the model under construction, train and validate calls
InitFitIdle ==
    /\ InitFit
    /\ validate_every_n_steps = 1
    /\ early_stopping_rounds = 1

InitModelSpec == InitFitIdle /\ InitModelAny /\ InitPreIdle

SpecModel == InitModelSpec /\ [][NextModel]_vars

\* the preprocessing run on a csv of up to MaxRows rows
InitPreSpec == InitFitIdle /\ NoModel /\ InitPre

SpecPre == InitPreSpec /\ [][NextPre]_vars

(* --------------------- properties of fit --------------------------------- *)
InFit == pc \in {"epoch", "miniset", "validate", "epoch_end"}

Last(s) == s[Len(s)]

\* the least k with k * v >= n, found by search rather than by the code's formula
CeilDiv(n, v) == CHOOSE k \in 0..n : k * v >= n /\ \A j \in 0..(k - 1) : j * v < n

RECURSIVE SumLens(_)
SumLens(ss) == IF ss = <<>> THEN 0 ELSE Len(ss[1]) + SumLens(Tail(ss))

Elems(s) == { s[i] : i \in 1..Len(s) }

\* the validations fit would run if it never stopped early: per epoch, the minisets
\* that are not skipped
ScheduledValidations ==
    num_epochs * Cardinality({ i \in 0..(NumMinisets(train_len, validate_every_n_steps) - 1) :
        ~SkipValidation(dev_present,
                        Min((i + 1) * validate_every_n_steps, train_len)
                            - Min(i * validate_every_n_steps, train_len),
                        validate_every_n_steps) })

\* C1: once the non-improvement counter equals early_stopping_rounds after a
\* validation of the running fit call, no later step of that call calls train or
\* validate.
C1_NoWorkAfterThreshold ==
    [][ (InFit /\ vals # <<>> /\ rounds_no_increase = early_stopping_rounds)
            => (train_calls' = train_calls /\ vals' = vals) ]_vars

\* C1 witness: fit has stopped early with a miniset of the current epoch and a whole
\* epoch still to go.
C1_Witness ==
    /\ pc = "returned" /\ stop_early
    /\ rounds_no_increase = early_stopping_rounds
    /\ idx_miniset + 1 < num_minisets
    /\ idx_epoch + 1 < num_epochs
    /\ train_calls = idx_miniset + 1

\* the accuracies of the validations after the first never exceed the first one
NeverImprovesAfterFirst == \A i \in 2..Len(vals) : vals[i].accuracy <= vals[1].accuracy

\* C2 (as stated): with early_stopping_rounds = 1, at least two validations scheduled
\* and accuracies that never improve after the first validation, whatever the first
\* accuracy is, a finished fit has made exactly 2 validate calls.
C2_Original ==
    (/\ pc = "returned" /\ early_stopping_rounds = 1 /\ dev_present
     /\ ScheduledValidations >= 2 /\ NeverImprovesAfterFirst)
        => Len(vals) = 2

\* C2 (amended): under the same conditions a finished fit has made exactly 2 validate
\* calls when the first accuracy is greater than 0.0, and exactly 1 when it is 0.0
\* (which does not exceed the initial best 0.0).
C2_TwoValidationsWhenFirstPositive ==
    (/\ pc = "returned" /\ early_stopping_rounds = 1 /\ dev_present
     /\ ScheduledValidations >= 2 /\ NeverImprovesAfterFirst)
        => /\ vals # <<>>
           /\ vals[1].accuracy > 0 => Len(vals) = 2
           /\ vals[1].accuracy = 0 => Len(vals) = 1

\* C2 witness: such a fit call has returned after two validations, the second one
\* not improving on a positive first accuracy.
C2_Witness ==
    /\ pc = "returned" /\ early_stopping_rounds = 1 /\ dev_present
    /\ ScheduledValidations > 2
    /\ Len(vals) = 2 /\ vals[1].accuracy > 0 /\ vals[2].accuracy <= vals[1].accuracy
    /\ stop_early

\* C3: within an epoch the minisets passed to train are disjoint slices of a
\* permutation of 0..N-1, all but possibly the last of exactly validate_every_n_steps
\* examples; once the epoch's miniset loop is exhausted there are
\* ceil(N / validate_every_n_steps) of them, their sizes sum to N and they cover
\* every index.
C3_MinisetsPartition ==
    pc \in {"miniset", "validate", "epoch_end"} =>
        /\ Elems(shuffled_indices) = 0..(train_len - 1)
        /\ Len(shuffled_indices) = train_len
        /\ \A i \in 1..Len(trained) :
              /\ Len(trained[i]) >= 1
              /\ Len(trained[i]) <= validate_every_n_steps
              /\ i < CeilDiv(train_len, validate_every_n_steps)
                    => Len(trained[i]) = validate_every_n_steps
              /\ Cardinality(Elems(trained[i])) = Len(trained[i])
              /\ \A j \in 1..Len(trained) : i # j => Elems(trained[i]) \cap Elems(trained[j]) = {}
        /\ (pc = "epoch_end" /\ ~stop_early) =>
              /\ Len(trained) = CeilDiv(train_len, validate_every_n_steps)
              /\ SumLens(trained) = train_len
              /\ UNION { Elems(trained[i]) : i \in 1..Len(trained) } = 0..(train_len - 1)

\* C3 witness: an epoch has been trained in full on a shuffled order, in two minisets
\* of which the last is the smaller.
C3_Witness ==
    /\ pc = "epoch_end" /\ ~stop_early
    /\ Len(trained) = 2
    /\ Len(trained[1]) = validate_every_n_steps
    /\ Len(trained[2]) < validate_every_n_steps
    /\ shuffled_indices[1] # 0

\* the step is a call of train that returned, with a dev set present
TrainedWithDev ==
    train_calls' = train_calls + 1 /\ train_status' = "ok" /\ dev_present

\* C4 (as stated): with a dev set, the validation after a miniset is skipped exactly
\* when the miniset has fewer examples than half of validate_every_n_steps, and a
\* skipped validation leaves the best accuracy and the counter unchanged.
C4_Original ==
    [][ TrainedWithDev =>
            /\ (pc' # "validate") <=> (2 * Len(curr_subset') < validate_every_n_steps)
            /\ (pc' # "validate") =>
                  (best_dev_acc' = best_dev_acc /\ rounds_no_increase' = rounds_no_increase
                   /\ vals' = vals) ]_vars

\* C4 (amended): the validation is skipped exactly when the miniset has fewer
\* examples than validate_every_n_steps // 2, the half rounded down; a skipped
\* validation leaves the best accuracy and the counter unchanged.
C4_SkipBelowFlooredHalf ==
    [][ TrainedWithDev =>
            /\ (pc' # "validate") <=>
                  (Len(curr_subset') < validate_every_n_steps \div 2)
            /\ (pc' # "validate") =>
                  (best_dev_acc' = best_dev_acc /\ rounds_no_increase' = rounds_no_increase
                   /\ vals' = vals) ]_vars

\* C4 witness: with a dev set present, a miniset below the floored half has been
\* trained and fit has gone on to the next miniset without validating.
C4_Witness ==
    /\ pc = "miniset" /\ dev_present
    /\ train_calls = 1 /\ idx_miniset = 1
    /\ Len(curr_subset) >= 1
    /\ Len(curr_subset) < validate_every_n_steps \div 2
    /\ vals = <<>>

\* C5 (as stated): a validation is followed by a call of save_checkpoint exactly when
\* its accuracy strictly improved on the best seen.
C5_SaveOnImprovement ==
    [][ (Len(vals') = Len(vals) + 1) =>
            save_calls' = save_calls + (IF Last(vals').new_best THEN 1 ELSE 0) ]_vars

\* C5 witness of the failing case: a validation has set a new best and fit has gone
\* on to the next miniset with no save_checkpoint call made.
C5_Witness ==
    /\ pc = "miniset" /\ vals # <<>> /\ Last(vals).new_best /\ save_calls = 0

\* C7: without a dev set fit never validates and never stops early; when it returns
\* it has trained every miniset of every epoch and exhausted the epochs.
C7_NoDevNoValidation ==
    (pc # "idle" /\ ~dev_present) =>
        /\ vals = <<>>
        /\ ~stop_early
        /\ pc # "validate"
        /\ pc = "returned" =>
              /\ idx_epoch = num_epochs
              /\ train_calls = num_epochs * CeilDiv(train_len, validate_every_n_steps)

\* C7 witness: a fit call without dev set and with early_stopping_rounds = 0 has
\* returned after training several minisets in each of several epochs.
C7_Witness ==
    /\ pc = "returned" /\ ~dev_present
    /\ early_stopping_rounds = 0
    /\ num_epochs >= 2
    /\ train_calls >= 2 * num_epochs

\* the step sets stop_early
StopsEarly == stop_early' /\ ~stop_early

\* the validation just made and the early_stopping_rounds - 1 before it all failed
\* to improve on the best seen
LastRoundsNonImproving ==
    /\ Len(vals') >= early_stopping_rounds
    /\ \A i \in 1..Len(vals') :
          i > Len(vals') - early_stopping_rounds => ~vals'[i].new_best

\* C10 (as stated): for every early_stopping_rounds, fit stops early only in the
\* step of a validation that did not improve on the best seen, and only when the
\* last early_stopping_rounds validations were all non-improving.
C10_Original ==
    [][ StopsEarly =>
            /\ Len(vals') = Len(vals) + 1
            /\ ~Last(vals').new_best
            /\ LastRoundsNonImproving ]_vars

\* C10 (amended): the same for every early_stopping_rounds >= 1; with
\* early_stopping_rounds = 0 fit stops early only in the step of a validation that
\* set a new best.
C10_StopOnlyAfterNonImprovingRun ==
    [][ StopsEarly =>
            /\ Len(vals') = Len(vals) + 1
            /\ early_stopping_rounds >= 1 =>
                  (~Last(vals').new_best /\ LastRoundsNonImproving)
            /\ early_stopping_rounds = 0 => Last(vals').new_best ]_vars

\* C10 witness: with early_stopping_rounds = 2, fit has stopped early after a new
\* best followed by two non-improving validations.
C10_Witness ==
    /\ pc = "epoch_end" /\ stop_early
    /\ early_stopping_rounds = 2
    /\ Len(vals) >= 3
    /\ vals[Len(vals) - 2].new_best
    /\ ~vals[Len(vals) - 1].new_best
    /\ ~Last(vals).new_best

\* the largest of 0 and the first k accuracies of this fit call
RECURSIVE MaxAccuracy(_)
MaxAccuracy(k) ==
    IF k = 0 THEN 0
    ELSE LET before == MaxAccuracy(k - 1)
         IN IF vals[k].accuracy > before THEN vals[k].accuracy ELSE before

\* validation i of this fit call strictly improved on everything seen before it
StrictlyImproving(i) == vals[i].accuracy > MaxAccuracy(i - 1)

\* the last strictly improving validation among the first k, 0 when there is none
RECURSIVE LastImprovement(_)
LastImprovement(k) ==
    IF k = 0 THEN 0
    ELSE IF StrictlyImproving(k) THEN k ELSE LastImprovement(k - 1)

\* the validations made since the last strictly improving one, all of them when
\* none improved
SinceLastImprovement == Len(vals) - LastImprovement(Len(vals))

\* C11: at every point of a fit call, from its entry on, the best accuracy is the
\* largest of 0.0 and the accuracies validated so far in this call, and the counter
\* is the number of validations since the last strictly improving one; a call made
\* after an earlier one has returned starts again from 0.0 and 0.
C11_BestAndCounterTrackValidations ==
    (InFit \/ pc = "returned") =>
        /\ best_dev_acc = MaxAccuracy(Len(vals))
        /\ rounds_no_increase = SinceLastImprovement
        /\ \A i \in 1..Len(vals) : vals[i].new_best <=> StrictlyImproving(i)

\* C11 witness: inside a fit call, after a validation that fell short of the best, one
\* that raised it above an earlier positive best and two that did not, the best is
\* the largest accuracy and the counter is 2.
C11_Witness ==
    /\ pc = "epoch_end"
    /\ Len(vals) = 5
    /\ vals[1].accuracy = 1 /\ vals[2].accuracy = 0 /\ vals[3].accuracy = 2
    /\ vals[4].accuracy = 2 /\ vals[5].accuracy = 1
    /\ best_dev_acc = 2
    /\ rounds_no_increase = 2

(* ------------------- properties of the fusion classifier ------------------- *)
\* C6 (as stated): in evaluation mode the dropout of forward leaves its input
\* unchanged, and two validate calls in a row on the same data, with no train call
\* between them, return the same accuracy and leave the parameters as they were.
C6_ValidateDeterministic ==
    /\ (fwd.status = "ok" /\ ~training) => ~fwd.dropped
    /\ Len(metrics) = 2 =>
          /\ metrics[1].accuracy = metrics[2].accuracy
          /\ metrics[1].params = metrics[2].params
          /\ params = metrics[2].params

\* C6 witness of the failing case: two validate calls in a row, with the same
\* parameters, have returned different accuracies.
C6_Witness ==
    /\ Len(metrics) = 2
    /\ metrics[1].params = metrics[2].params
    /\ metrics[1].accuracy # metrics[2].accuracy

\* C8 (as stated): every feature configuration with every pooling strategy can be
\* constructed, and in every forward the vector fed to the classifier is as wide as
\* the classifier's input, HiddenSize plus the sum of the configured embedding
\* dimensions, so that the output has num_labels columns.
C8_WidthsAgree ==
    /\ mstate # "KeyError"
    /\ fwd.status # "RuntimeError"
    /\ fwd.status = "ok" =>
          /\ fwd.fed_width = classifier_in
          /\ classifier_in = HiddenSize + SumValues(additional_features)
          /\ fwd.out_cols = NumLabels

\* C8 witness of the failing case: on a classifier constructed with the lstm or
\* weighted pooler, a forward has failed on a feature whose embedding size is not
\* the one the pooler was built with (the size of upostag).
C8_Witness ==
    /\ mstate = "ready"
    /\ fwd.status = "RuntimeError"
    /\ pooling_type \in {"lstm", "weighted"}
    /\ \E f \in DOMAIN additional_features :
          additional_features[f] # additional_features["upostag"]

(* ------------------- properties of the preprocessing run ------------------- *)
\* the indices (0-based) of the rows on which nlp did not raise, in order
RECURSIVE Survivors(_, _)
Survivors(i, n) ==
    IF i >= n THEN <<>>
    ELSE IF i \in raised THEN Survivors(i + 1, n)
         ELSE <<i>> \o Survivors(i + 1, n)

\* C9: a RuntimeError of the annotation on any subset of the rows does not end the
\* run: the loop visits every row, and the written rows are exactly the rows on
\* which the annotation succeeded, in their order, each with the features made from
\* its own text; there are as many features entries as written rows.
C9_FailuresDropRows ==
    /\ ppc \in {"loop", "done"}
    /\ ppc = "done" =>
          LET keep == Survivors(0, Len(df))
          IN /\ idx_ex = Len(df)
             /\ Len(take_mask) = Len(df)
             /\ Len(features) = Len(out_df)
             /\ Len(out_df) = Len(keep)
             /\ \A k \in 1..Len(keep) :
                   /\ out_df[k].content = df[keep[k] + 1].data
                   /\ out_df[k].target = df[keep[k] + 1].label
                   /\ out_df[k].features = ExtractFeatures(Nlp(df[keep[k] + 1].data))

\* C9 witness: a run over three rows has been written after the annotation failed
\* on the first and the last of them, keeping the middle row, whose neighbours have
\* another text.
C9_Witness ==
    /\ ppc = "done"
    /\ Len(df) = 3
    /\ raised = {0, 2}
    /\ Len(out_df) = 1
    /\ df[1].data # df[2].data
    /\ out_df[1].content = df[2].data

====
